---- MODULE Spec2Model ----
(***************************************************************************)
(* State-machine model of the useFreeScale hook                            *)
(* (src/src/hooks/use-free-scale.ts).                                      *)
(*                                                                         *)
(* The hook keeps three React state cells (transXY, scale, rotate), a ref  *)
(* that mirrors them as of the last render pass (transformConfigRef), the  *)
(* drag refs (mousedownLock, mouseXY), the cached rects and the listeners  *)
(* attached by its two effects.  A setState call only records the new      *)
(* value; the render pass that copies it into transformConfigRef is a      *)
(* separate step scheduled by React, so events may be delivered between a  *)
(* setState and the render that follows it.                                *)
(*                                                                         *)
(* JavaScript numbers are modelled as exact rationals [n, d] with d > 0,   *)
(* extended by d = 0 for Infinity (n = 1), -Infinity (n = -1) and NaN      *)
(* (n = 0).  Rounding of IEEE doubles is not modelled.                     *)
(***************************************************************************)
EXTENDS Integers, Sequences, FiniteSets, TLC

(***************************************************************************)
(* Numbers                                                                 *)
(***************************************************************************)
Abs(i) == IF i < 0 THEN -i ELSE i

Sign(i) == IF i < 0 THEN -1 ELSE IF i > 0 THEN 1 ELSE 0

RECURSIVE GCD(_, _)
GCD(a, b) == IF b = 0 THEN a ELSE GCD(b, a % b)

\* the number num/den in lowest terms; den = 0 gives +-Infinity or NaN
Num(num, den) ==
  IF den = 0 THEN [n |-> Sign(num), d |-> 0]
  ELSE LET g == GCD(Abs(num), Abs(den))
           s == Sign(den)
       IN  [n |-> (s * num) \div g, d |-> (s * den) \div g]

Int2Num(i) == [n |-> i, d |-> 1]

NaN == [n |-> 0, d |-> 0]

IsFinite(a) == a.d # 0

\* a + b
NumAdd(a, b) ==
  IF IsFinite(a) /\ IsFinite(b) THEN Num(a.n * b.d + b.n * a.d, a.d * b.d)
  ELSE IF a = NaN \/ b = NaN THEN NaN
  ELSE IF ~IsFinite(a) /\ ~IsFinite(b) THEN (IF a.n = b.n THEN a ELSE NaN)
  ELSE IF IsFinite(a) THEN b ELSE a

\* -a
NumNeg(a) == [n |-> -a.n, d |-> a.d]

\* a - b
NumSub(a, b) == NumAdd(a, NumNeg(b))

\* a * b
NumMul(a, b) ==
  IF IsFinite(a) /\ IsFinite(b) THEN Num(a.n * b.n, a.d * b.d)
  ELSE IF a = NaN \/ b = NaN \/ a.n = 0 \/ b.n = 0 THEN NaN
  ELSE [n |-> Sign(a.n) * Sign(b.n), d |-> 0]

\* a / b
NumDiv(a, b) ==
  IF IsFinite(a) /\ IsFinite(b) THEN Num(a.n * b.d, a.d * b.n) \* x/0 is +-Infinity, 0/0 is NaN
  ELSE IF a = NaN \/ b = NaN THEN NaN
  ELSE IF ~IsFinite(a) /\ ~IsFinite(b) THEN NaN
  ELSE IF IsFinite(a) THEN Int2Num(0)
  ELSE [n |-> a.n * (IF b.n < 0 THEN -1 ELSE 1), d |-> 0]

\* a < b (false when either is NaN)
NumLt(a, b) ==
  IF a = NaN \/ b = NaN THEN FALSE
  ELSE IF IsFinite(a) /\ IsFinite(b) THEN a.n * b.d < b.n * a.d
  ELSE IF ~IsFinite(a) /\ ~IsFinite(b) THEN a.n < b.n
  ELSE IF IsFinite(a) THEN b.n > 0 ELSE a.n < 0

\* component-wise operations on [x, y] pairs
PairAdd(p, q) == <<NumAdd(p[1], q[1]), NumAdd(p[2], q[2])>>

PairSub(p, q) == <<NumSub(p[1], q[1]), NumSub(p[2], q[2])>>

Pt(x, y) == <<Int2Num(x), Int2Num(y)>>

(***************************************************************************)
(* Number -> string, as a template literal `${x}` prints it: integers      *)
(* without a point, fractions in decimal.  A fraction whose expansion does *)
(* not end is cut after MaxFracDigits digits.                              *)
(***************************************************************************)
MaxFracDigits == 16

RECURSIVE FracDigits(_, _, _)
FracDigits(r, d, k) ==
  IF r = 0 \/ k = 0 THEN ""
  ELSE ToString((r * 10) \div d) \o FracDigits((r * 10) % d, d, k - 1)

NumToString(a) ==
  IF ~IsFinite(a)
  THEN (IF a.n = 0 THEN "NaN" ELSE IF a.n > 0 THEN "Infinity" ELSE "-Infinity")
  ELSE LET m == Abs(a.n)
           r == m % a.d
       IN  (IF a.n < 0 THEN "-" ELSE "") \o ToString(m \div a.d)
             \o (IF r = 0 THEN "" ELSE "." \o FracDigits(r, a.d, MaxFracDigits))

(***************************************************************************)
(* Bounds and input sets                                                   *)
(***************************************************************************)
\* number of input events (pointer, wheel, setter calls) in one behaviour
MaxEvents == 3

\* number of pointer events in a behaviour of drag sessions only
MaxDragEvents == 6

\* pointer positions (clientX, clientY)
Points == {Pt(1, 1), Pt(3, 2)}

\* vertical wheel deltas
DeltaYs == {-2, 0, 1}

\* the page layouts: what getBoundingClientRect() returns for the container
\* and for the child when an event is handled
Layouts ==
  { [ container |-> [left |-> 0, top |-> 0, width |-> 4, height |-> 4],
      child |-> [left |-> 0, top |-> 0, width |-> 2, height |-> 2] ],
    [ container |-> [left |-> 0, top |-> 0, width |-> 6, height |-> 4],
      child |-> [left |-> 1, top |-> 0, width |-> 3, height |-> 2] ] }

\* arguments of the exported setters
SetterTransXYs == {Pt(10, 20)}

SetterScales == {Num(3, 2), Num(9, 5), Num(5, 2)}

SetterRotates == {Int2Num(30)}

\* the scaleStep prop: the default and a caller's value
defaultScaleStep == Num(1, 10)

ScaleSteps == {defaultScaleStep, Num(1, 2)}

\* the customTrans prop: the default parameter (a new function on every
\* render) or a caller's function that limits the scale, created once
CustomTransKinds == {"default", "clamp"}

ClampMin == Num(1, 2)

ClampMax == Int2Num(2)

(***************************************************************************)
(* State                                                                   *)
(***************************************************************************)
VARIABLES
  scaleStep,          \* prop
  customTransKind,    \* prop
  transXY,            \* useState: the value last given to setTransXY
  scale,              \* useState: the value last given to setScale
  rotate,             \* useState: the value last given to setRotate
  containerRef,       \* containerRef.current is an element
  childRef,           \* childRef.current is an element
  mousedownLock,
  mouseXY,
  containerRectRef,
  childRectRef,
  transformConfigRef, \* the state as of the last render pass
  transform,          \* useMemo value
  transformDeps,      \* useMemo dependencies of the stored value
  wheelListeners,     \* "wheel" listeners registered on the container
  wheelDisposer,      \* the wheel effect returned a cleanup function
  mouseListeners,     \* mousedown/mousemove/mouseup listener sets registered
  mouseDisposer,      \* the mouse effect returned a cleanup function
  mounted,            \* the component is mounted
  event,              \* the last input event, with the state it found
  calls,              \* the customTrans calls made by the last input event
  dragStart,          \* the last mousedown: translation, pointer position,
                      \* whether the rendered translation was the current one,
                      \* the pointer displacement of the sessions before it,
                      \* and whether a mousemove with no session preceded it
  nEvents,            \* input events delivered so far
  run                 \* the behaviours looked at: how many input events, and
                      \* whether every event waits for the pending render pass

vars ==
  << scaleStep, customTransKind, transXY, scale, rotate, containerRef, childRef,
     mousedownLock, mouseXY, containerRectRef, childRectRef, transformConfigRef,
     transform, transformDeps, wheelListeners, wheelDisposer, mouseListeners,
     mouseDisposer, mounted, event, calls, dragStart, nEvents, run >>

props == <<scaleStep, customTransKind, run>>

state == <<transXY, scale, rotate>>

elements == <<containerRef, childRef>>

dragRefs == <<mousedownLock, mouseXY>>

rectRefs == <<containerRectRef, childRectRef>>

rendered == <<transformConfigRef, transform, transformDeps>>

listeners == <<wheelListeners, wheelDisposer, mouseListeners, mouseDisposer>>

\* ITransRes
TransRes(xy, s, r) == [transXY |-> xy, scale |-> s, rotate |-> r]

\* IDomRect: undefined, or the height and width of a DOMRect
UndefinedRect == [defined |-> FALSE, height |-> 0, width |-> 0]

DomRect(r) == [defined |-> TRUE, height |-> r.height, width |-> r.width]

\* the record kept of an input event: its type, its deltaY (wheel), whether
\* its handler called preventDefault, and the scale it found
Event(type, dy, prevented) ==
  [ type |-> type, deltaY |-> dy, defaultPrevented |-> prevented, scale |-> scale ]

(***************************************************************************)
(* customTrans                                                             *)
(***************************************************************************)
\* a caller's customTrans that limits the scale to [ClampMin, ClampMax]
ClampScale(v) ==
  [v EXCEPT !.scale = IF NumLt(v.scale, ClampMin) THEN ClampMin
                      ELSE IF NumLt(ClampMax, v.scale) THEN ClampMax
                      ELSE v.scale]

CustomTrans(prev, v, rect, action) ==
  IF customTransKind = "default" THEN v ELSE ClampScale(v)

\* one call of customTrans: its arguments and what it returned
Call(prev, v, rect, action) ==
  [ prev |-> prev, v |-> v, rect |-> rect, action |-> action,
    res |-> CustomTrans(prev, v, rect, action) ]

(***************************************************************************)
(* getOriginRect                                                           *)
(***************************************************************************)
\* getOriginRect reads the elements' rects on every call
GetOriginRectUncached(dom) ==
  [ originConatinerRect |->
      IF containerRef THEN DomRect(dom.container) ELSE UndefinedRect,
    originChildRect |->
      IF childRef THEN DomRect(dom.child) ELSE UndefinedRect ]

GetOriginRect(dom) ==
  [ originConatinerRect |->
      IF containerRectRef.defined THEN containerRectRef
      ELSE IF containerRef THEN DomRect(dom.container) ELSE UndefinedRect,
    originChildRect |->
      IF childRectRef.defined THEN childRectRef
      ELSE IF childRef THEN DomRect(dom.child) ELSE UndefinedRect ]

(***************************************************************************)
(* transform (useMemo)                                                     *)
(***************************************************************************)
TransformString(xy, r, s) ==
  "translateX(" \o NumToString(xy[1]) \o "px) translateY(" \o NumToString(xy[2])
    \o "px) rotate(" \o NumToString(r) \o "deg) scale(" \o NumToString(s) \o ")"

\* useMemo's dependency list without scale
TransformDepsNoScale(xy, r, s) == <<r, xy>>

TransformDeps(xy, r, s) == <<r, s, xy>>

(***************************************************************************)
(* handleMove                                                              *)
(***************************************************************************)
MoveDelta(xy) == PairSub(xy, mouseXY)

MoveProposal(xy) ==
  [transformConfigRef EXCEPT
     !.transXY = PairAdd(transformConfigRef.transXY, MoveDelta(xy))]

\* handleMove passes IAction.SCALE
MoveCallAsScale(xy, rect) ==
  Call(transformConfigRef, MoveProposal(xy), rect, "scale")

MoveCall(xy, rect) == Call(transformConfigRef, MoveProposal(xy), rect, "move")

MoveCommitTransXY(call) == call.res.transXY

\* handleMove commits scale and rotate of customTrans's result as well
HandleMoveCommitsAll(xy, dom) ==
  IF ~mousedownLock
  THEN /\ UNCHANGED <<state, dragRefs, rectRefs>>
       /\ calls' = << >>
       /\ event' = Event("mousemove", 0, FALSE)
  ELSE LET rect == GetOriginRect(dom)
           call == MoveCall(xy, rect)
       IN  /\ mouseXY' = xy
           /\ containerRectRef' = rect.originConatinerRect
           /\ childRectRef' = rect.originChildRect
           /\ transXY' = call.res.transXY
           /\ scale' = call.res.scale
           /\ rotate' = call.res.rotate
           /\ UNCHANGED mousedownLock
           /\ calls' = <<call>>
           /\ event' = Event("mousemove", 0, TRUE)

\* handleMove calls preventDefault before it tests mousedownLock
HandleMovePreventsFirst(xy, dom) ==
  IF ~mousedownLock
  THEN /\ UNCHANGED <<state, dragRefs, rectRefs>>
       /\ calls' = << >>
       /\ event' = Event("mousemove", 0, TRUE)
  ELSE LET rect == GetOriginRect(dom)
           call == MoveCall(xy, rect)
       IN  /\ mouseXY' = xy
           /\ containerRectRef' = rect.originConatinerRect
           /\ childRectRef' = rect.originChildRect
           /\ transXY' = MoveCommitTransXY(call)
           /\ UNCHANGED <<scale, rotate, mousedownLock>>
           /\ calls' = <<call>>
           /\ event' = Event("mousemove", 0, TRUE)

HandleMove(xy, dom) ==
  IF ~mousedownLock
  THEN /\ UNCHANGED <<state, dragRefs, rectRefs>>
       /\ calls' = << >>
       /\ event' = Event("mousemove", 0, FALSE)
  ELSE LET rect == GetOriginRect(dom)
           call == MoveCall(xy, rect)
       IN  /\ mouseXY' = xy
           /\ containerRectRef' = rect.originConatinerRect
           /\ childRectRef' = rect.originChildRect
           /\ transXY' = MoveCommitTransXY(call)
           /\ UNCHANGED <<scale, rotate, mousedownLock>>
           /\ calls' = <<call>>
           /\ event' = Event("mousemove", 0, TRUE)

(***************************************************************************)
(* handleGesture                                                           *)
(***************************************************************************)
\* handleGesture without the mousedownLock test
GestureIgnoredNoLock(deltaY) == deltaY = 0

\* handleGesture without the deltaY === 0 test
GestureIgnoredNoZero(deltaY) == mousedownLock

GestureIgnored(deltaY) == deltaY = 0 \/ mousedownLock

Direc(deltaY) == IF deltaY > 0 THEN -1 ELSE 1

ChildCenter(childRect) ==
  << NumAdd(Int2Num(childRect.left), Num(childRect.width, 2)),
     NumAdd(Int2Num(childRect.top), Num(childRect.height, 2)) >>

DeltaOffset(targetPoint, childCenter, direc) ==
  [ i \in {1, 2} |->
      NumMul(NumDiv(NumMul(NumSub(targetPoint[i], childCenter[i]), Int2Num(direc)),
                    transformConfigRef.scale),
             scaleStep) ]

GestureProposal(targetPoint, childCenter, direc) ==
  TransRes(PairSub(transformConfigRef.transXY,
                   DeltaOffset(targetPoint, childCenter, direc)),
           NumAdd(transformConfigRef.scale, NumMul(Int2Num(direc), scaleStep)),
           transformConfigRef.rotate)

GestureCall(xy, deltaY, childDom, rect) ==
  Call(transformConfigRef,
       GestureProposal(xy, ChildCenter(childDom), Direc(deltaY)),
       rect, "scale")

\* setScale is given the proposal instead of customTrans's result
GestureCommitProposedScale(call) == call.v.scale

GestureCommitScale(call) == call.res.scale

GestureCommitTransXY(call) == call.res.transXY

GestureCommitRotate(call) == call.res.rotate

HandleGesture(xy, deltaY, dom) ==
  /\ event' = Event("wheel", deltaY, TRUE)
  /\ UNCHANGED dragRefs
  /\ IF GestureIgnored(deltaY) \/ ~(containerRef /\ childRef)
     THEN /\ UNCHANGED <<state, rectRefs>>
          /\ calls' = << >>
     ELSE LET rect == GetOriginRect(dom)
              call == GestureCall(xy, deltaY, dom.child, rect)
          IN  /\ containerRectRef' = rect.originConatinerRect
              /\ childRectRef' = rect.originChildRect
              /\ scale' = GestureCommitScale(call)
              /\ transXY' = GestureCommitTransXY(call)
              /\ rotate' = GestureCommitRotate(call)
              /\ calls' = <<call>>

(***************************************************************************)
(* The effects                                                             *)
(***************************************************************************)
\* handleMove and handleGesture are new functions after a render exactly
\* when customTrans is: the default parameter is a new arrow function on
\* every render, a caller's function is the same one; scaleStep is fixed
CallbacksChanged == customTransKind = "default"

\* an effect's body: attach when both elements are there
EffectAttaches(container, child) == container /\ child

\* the cleanup function removes nothing
AfterCleanupRemovesNothing(count, disposer) == count

\* listeners left after the previous run's cleanup
AfterCleanup(count, disposer) == IF disposer THEN count - 1 ELSE count

RunEffects(container, child) ==
  IF CallbacksChanged
  THEN /\ wheelListeners' = AfterCleanup(wheelListeners, wheelDisposer)
                              + (IF EffectAttaches(container, child) THEN 1 ELSE 0)
       /\ wheelDisposer' = EffectAttaches(container, child)
       /\ mouseListeners' = AfterCleanup(mouseListeners, mouseDisposer)
                              + (IF EffectAttaches(container, child) THEN 1 ELSE 0)
       /\ mouseDisposer' = EffectAttaches(container, child)
  ELSE UNCHANGED listeners

(***************************************************************************)
(* Initial state: after the first render pass and its effects              *)
(***************************************************************************)
NoEvent ==
  [ type |-> "none", deltaY |-> 0, defaultPrevented |-> FALSE, scale |-> Int2Num(1) ]

InitHook ==
  /\ scaleStep \in ScaleSteps
  /\ customTransKind \in CustomTransKinds
  /\ transXY = Pt(0, 0)
  /\ scale = Int2Num(1)
  /\ rotate = Int2Num(0)
  /\ containerRef \in BOOLEAN
  /\ childRef \in BOOLEAN
  /\ mousedownLock = FALSE
  /\ mouseXY = Pt(0, 0)
  /\ containerRectRef = UndefinedRect
  /\ childRectRef = UndefinedRect
  /\ transformConfigRef = TransRes(transXY, scale, rotate)
  /\ transform = TransformString(transXY, rotate, scale)
  /\ transformDeps = TransformDeps(transXY, rotate, scale)
  /\ wheelListeners = IF EffectAttaches(containerRef, childRef) THEN 1 ELSE 0
  /\ wheelDisposer = EffectAttaches(containerRef, childRef)
  /\ mouseListeners = IF EffectAttaches(containerRef, childRef) THEN 1 ELSE 0
  /\ mouseDisposer = EffectAttaches(containerRef, childRef)
  /\ mounted = TRUE
  /\ event = NoEvent
  /\ calls = << >>
  /\ dragStart = [ transXY |-> Pt(0, 0), mouseXY |-> Pt(0, 0), rendered |-> TRUE,
                   sum |-> Pt(0, 0), afterIdle |-> FALSE ]
  /\ nEvents = 0

Init ==
  /\ InitHook
  /\ run = [maxEvents |-> MaxEvents, renderFirst |-> FALSE]

(***************************************************************************)
(* Steps                                                                   *)
(***************************************************************************)
\* an input event is delivered
RenderedIsCurrent == transformConfigRef = TransRes(transXY, scale, rotate)

Delivered ==
  /\ nEvents < run.maxEvents
  /\ run.renderFirst => RenderedIsCurrent
  /\ nEvents' = nEvents + 1
  /\ UNCHANGED <<props, elements, rendered, listeners, mounted>>

\* a render pass of the component: the function body, the commit that
\* sets the element refs, and the effects
Render(mountContainer, mountChild) ==
  /\ mounted
  /\ transformConfigRef' = TransRes(transXY, scale, rotate)
  /\ transformDeps' = TransformDeps(transXY, rotate, scale)
  /\ transform' = IF transformDeps' # transformDeps
                  THEN TransformString(transXY, rotate, scale)
                  ELSE transform
  /\ containerRef' = (containerRef \/ mountContainer)
  /\ childRef' = (childRef \/ mountChild)
  /\ RunEffects(containerRef', childRef')
  /\ UNCHANGED <<props, state, dragRefs, rectRefs, mounted, event, calls, dragStart,
                 nEvents>>

\* handleMouseDown does not record the pointer position
MouseDownKeepsMouseXY(xy) ==
  /\ mouseListeners > 0
  /\ Delivered
  /\ mousedownLock' = TRUE
  /\ dragStart' = [ transXY |-> transXY, mouseXY |-> xy,
                    rendered |-> transformConfigRef.transXY = transXY,
                    sum |-> PairAdd(dragStart.sum,
                                    PairSub(mouseXY, dragStart.mouseXY)),
                    afterIdle |-> event.type = "mousemove"
                                    /\ ~event.defaultPrevented ]
  /\ event' = Event("mousedown", 0, FALSE)
  /\ calls' = << >>
  /\ UNCHANGED <<state, mouseXY, rectRefs>>

\* mousedown on the child
MouseDown(xy) ==
  /\ mouseListeners > 0
  /\ Delivered
  /\ mousedownLock' = TRUE
  /\ mouseXY' = xy
  /\ dragStart' = [ transXY |-> transXY, mouseXY |-> xy,
                    rendered |-> transformConfigRef.transXY = transXY,
                    sum |-> PairAdd(dragStart.sum,
                                    PairSub(mouseXY, dragStart.mouseXY)),
                    afterIdle |-> event.type = "mousemove"
                                    /\ ~event.defaultPrevented ]
  /\ event' = Event("mousedown", 0, FALSE)
  /\ calls' = << >>
  /\ UNCHANGED <<state, rectRefs>>

\* handleMouseUp leaves mousedownLock as it is
MouseUpKeepsLock ==
  /\ mouseListeners > 0
  /\ Delivered
  /\ event' = Event("mouseup", 0, FALSE)
  /\ calls' = << >>
  /\ UNCHANGED <<state, dragRefs, rectRefs, dragStart>>

\* mouseup anywhere in the document
MouseUp ==
  /\ mouseListeners > 0
  /\ Delivered
  /\ mousedownLock' = FALSE
  /\ event' = Event("mouseup", 0, FALSE)
  /\ calls' = << >>
  /\ UNCHANGED <<state, mouseXY, rectRefs, dragStart>>

\* mousemove anywhere in the document
MouseMove(xy, dom) ==
  /\ mouseListeners > 0
  /\ Delivered
  /\ HandleMove(xy, dom)
  /\ UNCHANGED dragStart

\* wheel on the container
Wheel(xy, deltaY, dom) ==
  /\ wheelListeners > 0
  /\ Delivered
  /\ HandleGesture(xy, deltaY, dom)
  /\ UNCHANGED dragStart

\* the exported setters, called by the component's owner
SetTransXY(v) ==
  /\ mounted
  /\ Delivered
  /\ transXY' = v
  /\ event' = Event("setTransXY", 0, FALSE)
  /\ calls' = << >>
  /\ UNCHANGED <<scale, rotate, dragRefs, rectRefs, dragStart>>

SetScale(v) ==
  /\ mounted
  /\ Delivered
  /\ scale' = v
  /\ event' = Event("setScale", 0, FALSE)
  /\ calls' = << >>
  /\ UNCHANGED <<transXY, rotate, dragRefs, rectRefs, dragStart>>

SetRotate(v) ==
  /\ mounted
  /\ Delivered
  /\ rotate' = v
  /\ event' = Event("setRotate", 0, FALSE)
  /\ calls' = << >>
  /\ UNCHANGED <<transXY, scale, dragRefs, rectRefs, dragStart>>

\* the component unmounts: React runs the cleanup function of each effect
\* and clears the element refs; later setter calls are ignored
Unmount ==
  /\ mounted
  /\ mounted' = FALSE
  /\ wheelListeners' = AfterCleanup(wheelListeners, wheelDisposer)
  /\ wheelDisposer' = FALSE
  /\ mouseListeners' = AfterCleanup(mouseListeners, mouseDisposer)
  /\ mouseDisposer' = FALSE
  /\ containerRef' = FALSE
  /\ childRef' = FALSE
  /\ UNCHANGED <<props, state, dragRefs, rectRefs, rendered, event, calls, dragStart,
                 nEvents>>

Gestures ==
  \/ \E xy \in Points : MouseDown(xy)
  \/ MouseUp
  \/ \E xy \in Points, dom \in Layouts : MouseMove(xy, dom)
  \/ \E xy \in Points, dy \in DeltaYs, dom \in Layouts : Wheel(xy, dy, dom)

Renders == \E mc \in BOOLEAN, mch \in BOOLEAN : Render(mc, mch)

Setters ==
  \/ \E v \in SetterTransXYs : SetTransXY(v)
  \/ \E v \in SetterScales : SetScale(v)
  \/ \E v \in SetterRotates : SetRotate(v)

Next == Gestures \/ Renders \/ Setters \/ Unmount

Spec == Init /\ [][Next]_vars

\* gestures and render passes only: the owner never calls a setter
NextGesture == Gestures \/ Renders \/ Unmount

SpecGesture == Init /\ [][NextGesture]_vars

\* drag sessions with a render pass after every event: mousedown, mousemove
\* and mouseup only, each delivered when the rendered state is current
InitDrag ==
  /\ InitHook
  /\ run = [maxEvents |-> MaxDragEvents, renderFirst |-> TRUE]

DragGestures ==
  \/ \E xy \in Points : MouseDown(xy)
  \/ MouseUp
  \/ \E xy \in Points, dom \in Layouts : MouseMove(xy, dom)

NextDrag == DragGestures \/ Renders

SpecDrag == InitDrag /\ [][NextDrag]_vars

(***************************************************************************)
(* Properties                                                              *)
(***************************************************************************)
\* this step delivers an input event of the given type
Delivers(type) == nEvents' = nEvents + 1 /\ event'.type = type

\* this step is a wheel event that handleGesture is to process
ProcessedWheel ==
  /\ Delivers("wheel")
  /\ event'.deltaY # 0
  /\ ~mousedownLock
  /\ containerRef /\ childRef

\* this step is a mousemove that handleMove is to process
ProcessedMove == Delivers("mousemove") /\ mousedownLock

CurrentState == TransRes(transXY, scale, rotate)

InClampRange(s) == ~NumLt(s, ClampMin) /\ ~NumLt(ClampMax, s)

\* C1: with the default customTrans, during a drag session of mousemove
\* events and render passes in any order, the translation equals the
\* translation at mousedown plus (last pointer position - mousedown
\* position).  Stated for sessions that begin with the rendered translation
\* current.
C1_DragSum ==
  (customTransKind = "default" /\ mousedownLock /\ dragStart.rendered)
    => transXY = PairAdd(dragStart.transXY, PairSub(mouseXY, dragStart.mouseXY))

\* C2: the previous state a processed mousemove reads from
\* transformConfigRef is the state last committed by setTransXY, setScale
\* and setRotate.
C2_MoveSeesLastCommit ==
  [][ProcessedMove => (calls' # << >> /\ calls'[1].prev = CurrentState)]_vars

\* C3: while mousedownLock is true a wheel event leaves translation, scale,
\* rotation, the last pointer position, the drag lock and the rect
\* snapshot unchanged and does not call customTrans.
C3_WheelIgnoredWhileDragging ==
  [][(Delivers("wheel") /\ mousedownLock)
       => (UNCHANGED <<state, dragRefs, rectRefs>> /\ calls' = << >>)]_vars

C3_Witness ==
  /\ event.type = "wheel" /\ event.deltaY # 0
  /\ mousedownLock /\ containerRef /\ childRef
  /\ transXY # Pt(0, 0)

\* C4: a wheel event with deltaY = 0 leaves translation, scale, rotation,
\* the drag session state and the rect snapshot unchanged and does not call
\* customTrans, whatever customTrans is.
C4_ZeroWheelIsNoOp ==
  [][(Delivers("wheel") /\ event'.deltaY = 0)
       => (UNCHANGED <<state, dragRefs, rectRefs>> /\ calls' = << >>)]_vars

C4_Witness ==
  /\ event.type = "wheel" /\ event.deltaY = 0
  /\ ~mousedownLock /\ containerRef /\ childRef
  /\ customTransKind = "clamp"
  /\ scale # Int2Num(1)

\* C5: with the default customTrans, no drag session and both elements
\* present, a wheel event with deltaY # 0 changes the committed scale by
\* exactly +scaleStep (deltaY < 0) or -scaleStep (deltaY > 0).
C5_OneStepPerWheel ==
  (customTransKind = "default" /\ event.type = "wheel" /\ event.deltaY # 0
     /\ ~mousedownLock)
    => scale = NumAdd(event.scale,
                      IF event.deltaY < 0 THEN scaleStep ELSE NumNeg(scaleStep))

\* C6: with the default customTrans and no drag session, a zoom-in wheel
\* event followed by a zoom-out wheel event (render passes anywhere around
\* them) returns the scale to its value before the pair.
C6_ZoomInOutRestores ==
  [][( /\ customTransKind = "default"
       /\ event.type = "wheel" /\ event.deltaY < 0 /\ calls # << >>
       /\ ProcessedWheel /\ event'.deltaY > 0 )
       => scale' = event.scale]_vars

\* C7: the scale a wheel event commits is the scale customTrans returned;
\* with a customTrans that limits the scale to [0.5, 2] a proposed 2.3
\* commits 2, and no wheel or drag event takes the scale out of [0.5, 2].
C7_ScaleIsCorrected ==
  [][(\E t \in {"wheel", "mousedown", "mousemove", "mouseup"} : Delivers(t))
       => /\ ProcessedWheel
             => (calls' # << >> /\ scale' = calls'[1].res.scale)
          /\ (customTransKind = "clamp" /\ ProcessedWheel
                /\ calls'[1].v.scale = Num(23, 10))
             => scale' = Int2Num(2)
          /\ (customTransKind = "clamp" /\ InClampRange(scale))
             => InClampRange(scale')]_vars

C7_Witness ==
  /\ customTransKind = "clamp"
  /\ event.type = "wheel" /\ calls # << >>
  /\ calls[1].v.scale = Num(23, 10)
  /\ scale = Int2Num(2)

\* C8: after every render pass the transform string is the one for the
\* translation, rotation and scale of that render pass, in the order
\* translateX, translateY, rotate, scale.
C8_TransformIsCurrent ==
  /\ transform = TransformString(transformConfigRef.transXY,
                                 transformConfigRef.rotate,
                                 transformConfigRef.scale)
  /\ transformConfigRef = TransRes(Pt(10, 20), Num(3, 2), Int2Num(30))
       => transform = "translateX(10px) translateY(20px) rotate(30deg) scale(1.5)"

C8_Witness ==
  /\ transformConfigRef = TransRes(Pt(10, 20), Num(3, 2), Int2Num(30))
  /\ transform = "translateX(10px) translateY(20px) rotate(30deg) scale(1.5)"

\* C9: a processed mousemove calls customTrans exactly once with
\* (transformConfigRef.current, the proposal, the rect snapshot, MOVE) and
\* commits the translation it returns; a processed wheel event calls it
\* exactly once with (..., SCALE) and commits the scale, translation and
\* rotation it returns; any other gesture event commits nothing.
C9_CommitsGoThroughCustomTrans ==
  [][(\E t \in {"wheel", "mousedown", "mousemove", "mouseup"} : Delivers(t))
       => IF ProcessedMove \/ ProcessedWheel
          THEN /\ Len(calls') = 1
               /\ calls'[1].prev = transformConfigRef
               /\ calls'[1].rect = [ originConatinerRect |-> containerRectRef',
                                     originChildRect |-> childRectRef' ]
               /\ calls'[1].res = CustomTrans(calls'[1].prev, calls'[1].v,
                                              calls'[1].rect, calls'[1].action)
               /\ IF ProcessedMove
                  THEN /\ calls'[1].action = "move"
                       /\ calls'[1].v =
                            [transformConfigRef EXCEPT
                               !.transXY = PairAdd(transformConfigRef.transXY,
                                                   PairSub(mouseXY', mouseXY))]
                       /\ transXY' = calls'[1].res.transXY
                       /\ UNCHANGED <<scale, rotate>>
                  ELSE /\ calls'[1].action = "scale"
                       /\ calls'[1].v.scale =
                            NumAdd(transformConfigRef.scale,
                                   IF event'.deltaY < 0 THEN scaleStep
                                   ELSE NumNeg(scaleStep))
                       /\ calls'[1].v.rotate = transformConfigRef.rotate
                       /\ TransRes(transXY', scale', rotate') = calls'[1].res
          ELSE calls' = << >> /\ UNCHANGED state]_vars

C9_Witness ==
  /\ customTransKind = "clamp"
  /\ event.type = "wheel" /\ Len(calls) = 1
  /\ calls[1].res # calls[1].v
  /\ CurrentState = calls[1].res

\* C10: with the default customTrans a wheel event leaves the committed
\* rotation as it was before the event, also when it was last set through
\* setRotate.
C10_WheelKeepsRotation ==
  [][(customTransKind = "default" /\ Delivers("wheel")) => rotate' = rotate]_vars

\* C11: the drag session starts IDLE (mousedownLock false); a mousedown on
\* the child makes it DRAGGING, a mouseup makes it IDLE, and no other step
\* (mousemove, wheel, setter, render pass with its listener detach and
\* re-attach, unmount) changes it; a mousemove changes the translation only
\* while DRAGGING, and then to the translation customTrans returned.
C11_DragStateMachine ==
  /\ ~mousedownLock
  /\ [][ /\ Delivers("mousedown") => mousedownLock'
         /\ Delivers("mouseup") => ~mousedownLock'
         /\ ~(Delivers("mousedown") \/ Delivers("mouseup"))
              => mousedownLock' = mousedownLock
         /\ (Delivers("mousemove") /\ ~mousedownLock) => transXY' = transXY
         /\ (Delivers("mousemove") /\ mousedownLock)
              => (calls' # << >> /\ transXY' = calls'[1].res.transXY) ]_vars

C11_Witness ==
  /\ event.type = "mouseup" /\ ~mousedownLock
  /\ transXY # dragStart.transXY
  /\ transformConfigRef.transXY = transXY

\* this step is a render pass
RenderPass == nEvents' = nEvents /\ mounted'

\* C12: when an element is missing the effects attach nothing, and a later
\* render pass attaches: a render pass that begins with both elements
\* available ends with the wheel listener and the mousedown, mousemove and
\* mouseup listeners attached, with the default customTrans and with a
\* caller's customTrans of stable identity.
C12_AttachIsRetried ==
  [][(RenderPass /\ containerRef /\ childRef)
       => (wheelListeners' > 0 /\ mouseListeners' > 0)]_vars

\* C13: attach and cleanup are balanced: the listeners registered are
\* exactly those of the effect run whose cleanup function is still pending,
\* so at most one wheel listener and one set of mousedown, mousemove and
\* mouseup listeners is registered after any number of render passes; after
\* unmount none is registered and no step changes translation, scale or
\* rotation.
C13_ListenersBalanced ==
  /\ [](/\ wheelListeners = (IF wheelDisposer THEN 1 ELSE 0)
        /\ mouseListeners = (IF mouseDisposer THEN 1 ELSE 0)
        /\ ~mounted => (wheelListeners = 0 /\ mouseListeners = 0))
  /\ [][~mounted => UNCHANGED state]_vars

C13_Witness ==
  /\ ~mounted
  /\ wheelListeners = 0 /\ mouseListeners = 0
  /\ customTransKind = "default"
  /\ event.type = "wheel" /\ calls # << >>
  /\ transformConfigRef = CurrentState

RectSnapshot(container, child) ==
  [originConatinerRect |-> container, originChildRect |-> child]

\* C14: the rect snapshot is undefined until the first processed mousemove
\* or wheel event, which captures both rects; only such an event writes
\* the rect refs; a rect ref that is defined never changes again, whatever
\* the elements' rects are later; and every customTrans call receives the
\* cached snapshot.
C14_RectSnapshotCached ==
  /\ ~containerRectRef.defined /\ ~childRectRef.defined
  /\ [][ /\ containerRectRef.defined => containerRectRef' = containerRectRef
         /\ childRectRef.defined => childRectRef' = childRectRef
         /\ rectRefs' # rectRefs => (ProcessedMove \/ ProcessedWheel)
         /\ (ProcessedMove \/ ProcessedWheel)
              => /\ containerRectRef'.defined /\ childRectRef'.defined
                 /\ Len(calls') = 1
                 /\ calls'[1].rect = RectSnapshot(containerRectRef', childRectRef') ]_vars

\* the snapshot is the one of layout a, and the last wheel event was handled
\* while the page had layout b
C14_Witness ==
  \E a \in Layouts, b \in Layouts :
    /\ a # b
    /\ containerRectRef = DomRect(a.container)
    /\ childRectRef = DomRect(a.child)
    /\ event.type = "wheel" /\ Len(calls) = 1
    /\ calls[1].rect = RectSnapshot(DomRect(a.container), DomRect(a.child))
    /\ calls[1].prev = transformConfigRef
    /\ \E xy \in Points :
         calls[1].v = GestureProposal(xy, ChildCenter(b.child), Direc(event.deltaY))
    /\ \A xy \in Points :
         calls[1].v # GestureProposal(xy, ChildCenter(a.child), Direc(event.deltaY))

\* C15: a mousemove leaves scale and rotation unchanged, also when
\* customTrans returns a scale or rotation different from the current one.
C15_MoveCommitsTranslationOnly ==
  [][Delivers("mousemove") => UNCHANGED <<scale, rotate>>]_vars

C15_Witness ==
  /\ customTransKind = "clamp"
  /\ event.type = "mousemove" /\ Len(calls) = 1
  /\ calls[1].res.scale # scale
  /\ calls[1].res.scale # calls[1].prev.scale
  /\ transXY = calls[1].res.transXY

\* C16: a mousemove with no drag session changes nothing, calls no
\* customTrans and does not call preventDefault; a mousemove calls
\* preventDefault exactly when a drag session is active.
C16_IdleMoveIsNoOp ==
  [][Delivers("mousemove")
       => /\ event'.defaultPrevented = mousedownLock
          /\ ~mousedownLock
               => (UNCHANGED <<state, dragRefs, rectRefs>> /\ calls' = << >>)]_vars

C16_Witness ==
  /\ event.type = "mousemove" /\ ~event.defaultPrevented
  /\ ~mousedownLock /\ calls = << >>
  /\ transXY # Pt(0, 0)
  /\ \E xy \in Points : xy # mouseXY

\* C17: a processed wheel event proposes the translation
\* translation - ((pointer - childCenter) * direction / scale) * scaleStep
\* per component (translation and scale as last rendered); so with the
\* default customTrans a wheel event whose pointer is at the child's centre
\* changes the scale and leaves the translation unchanged.
C17_WheelTranslation ==
  [][\A xy \in Points, dy \in DeltaYs, dom \in Layouts :
       (Wheel(xy, dy, dom) /\ ProcessedWheel)
         => /\ Len(calls') = 1
            /\ calls'[1].v.transXY =
                 [ i \in {1, 2} |->
                     NumSub(transformConfigRef.transXY[i],
                            NumMul(NumDiv(NumMul(NumSub(xy[i], ChildCenter(dom.child)[i]),
                                                 Int2Num(IF dy < 0 THEN 1 ELSE -1)),
                                          transformConfigRef.scale),
                                   scaleStep)) ]
            /\ (customTransKind = "default" /\ xy = ChildCenter(dom.child))
                 => transXY' = transXY]_vars

\* C18: with the default customTrans and a render pass after each event,
\* over any number of drag sessions separated by idle pointer movement the
\* translation is the initial translation plus the sum over the sessions
\* of (last pointer position of the session - mousedown position);
\* mousedown sets the last pointer position to its own position.
C18_NoIdleLeak ==
  /\ customTransKind = "default"
       => transXY = PairAdd(PairAdd(Pt(0, 0), dragStart.sum),
                            PairSub(mouseXY, dragStart.mouseXY))
  /\ event.type = "mousedown" => mouseXY = dragStart.mouseXY

\* a first session dragged from (1,1) to (3,2); the pointer then went back
\* to (1,1) with no button down, and a second session dragged from there
\* to (3,2) again
C18_Witness ==
  /\ customTransKind = "default"
  /\ event.type = "mousemove" /\ mousedownLock /\ calls # << >>
  /\ dragStart.sum = Pt(2, 1)
  /\ dragStart.afterIdle
  /\ dragStart.mouseXY = Pt(1, 1)
  /\ mouseXY = Pt(3, 2)
  /\ transXY = Pt(4, 2)

\* C19: with the default customTrans, initial scale 1 and a scaleStep > 0,
\* the scale a wheel event divides by is positive in every state reached
\* through wheel events, so the proposed and committed translations are
\* finite.
C19_DivisorPositive ==
  (customTransKind = "default" /\ event.type = "wheel" /\ calls # << >>)
    => /\ NumLt(Int2Num(0), calls[1].prev.scale)
       /\ \A i \in {1, 2} : IsFinite(calls[1].v.transXY[i])
       /\ \A i \in {1, 2} : IsFinite(transXY[i])
====
